---- MODULE Spec2Model ----
(***************************************************************************)
(* Model of mydlib: catalogue build (traverser.create_catalogue_txt,      *)
(* traverser.create_catalogue_traversing), catalogue store (dump_file,    *)
(* load_file), catalogue replay (traverser.traverse_catalogue), the        *)
(* per-file acquisition (libgenget.get_book, libgenget.download) and the   *)
(* extraction of a record from a result row (libgenget.get_info).         *)
(*                                                                         *)
(* Python strings are sequences of one-character strings, so that split,  *)
(* replace, join and indexing are computed as Python computes them.       *)
(***************************************************************************)
EXTENDS Integers, Sequences, FiniteSets, TLC

VARIABLES
    pc,           \* position of the running operation
    err,          \* the exception that ended it: its type and where it was raised
    catFile,      \* the catalogue file: absent, or present with its pickle stream
    fsDirs,       \* directories that exist in the working directory (canonical)
    catalogue,    \* traverse_catalogue: the loaded catalogue
    base_dir,     \* traverse_catalogue: base_dir
    replace_path, \* traverse_catalogue: replace_path
    idx,          \* traverse_catalogue: index of the entry being replayed
    fidx,         \* traverse_catalogue: index of the file being replayed
    path_,        \* traverse_catalogue: normalised path of the current entry
    created,      \* directories made by os.mkdir in this replay, in order
    invoked,      \* file names the per-file action was invoked with, in order
    book_name,    \* get_book: book_name
    file_name,    \* get_book: file_name
    auto,         \* get_book: auto
    queries,      \* get_book: the searches issued by this call, in order
    gbRet,        \* get_book: "none" while running, "True" / "False" once returned
    gbWrites,     \* get_book: the files written by this call, in order
    infos,        \* download: records extracted by the last search
    finals,       \* download: indices (into infos) of the records selected
    netFailed,    \* a transport failure happened in this run
    loaded,       \* store: the value load_file returned
    selection,    \* download: the indices the operator entered at the prompt
    row,          \* get_info: the cells of the result row
    extracted,    \* get_info: what the call returned or raised
    bInput,       \* build: the input path: its kind, name, lines (a file), tree (a directory)
    bDest,        \* build: what was at the destination path before the build
    bRead         \* build: the input has been read or scanned

vars == <<pc, err, catFile, fsDirs, catalogue, base_dir, replace_path, idx, fidx,
          path_, created, invoked, book_name, file_name, auto, queries, gbRet,
          gbWrites, infos, finals, netFailed, loaded, selection, row, extracted,
          bInput, bDest, bRead>>

(***************************************************************************)
(* Bounds of the model.                                                    *)
(***************************************************************************)
MaxPathLen == 1
MaxEntries == 2
MaxLines == 3
MaxRecords == 3
MaxSelected == 2
MaxLinks == 3

(***************************************************************************)
(* Python str operations.                                                  *)
(***************************************************************************)
RECURSIVE SplitRec(_, _, _, _, _)
SplitRec(s, sep, cur, acc, i) ==
    IF i > Len(s) THEN Append(acc, cur)
    ELSE IF s[i] = sep THEN SplitRec(s, sep, <<>>, Append(acc, cur), i + 1)
    ELSE SplitRec(s, sep, Append(cur, s[i]), acc, i + 1)

\* s.split(sep) for a one-character sep
Split(s, sep) == SplitRec(s, sep, <<>>, <<>>, 1)

RECURSIVE Join(_, _)
\* sep.join(parts)
Join(parts, sep) ==
    IF parts = <<>> THEN <<>>
    ELSE IF Len(parts) = 1 THEN parts[1]
    ELSE parts[1] \o sep \o Join(Tail(parts), sep)

OccursAt(s, old, i) ==
    /\ i + Len(old) - 1 <= Len(s)
    /\ SubSeq(s, i, i + Len(old) - 1) = old

RECURSIVE ReplaceRec(_, _, _, _)
ReplaceRec(s, old, new, i) ==
    IF i > Len(s) THEN <<>>
    ELSE IF OccursAt(s, old, i) THEN new \o ReplaceRec(s, old, new, i + Len(old))
    ELSE <<s[i]>> \o ReplaceRec(s, old, new, i + 1)

RECURSIVE Interleave(_, _)
Interleave(s, new) ==
    IF s = <<>> THEN new ELSE new \o <<s[1]>> \o Interleave(Tail(s), new)

\* s.replace(old, new): every non-overlapping occurrence, left to right
Replace(s, old, new) ==
    IF old = <<>> THEN Interleave(s, new) ELSE ReplaceRec(s, old, new, 1)

\* c in s
Contains(s, c) == \E i \in 1..Len(s) : s[i] = c

\* sub in s, for strings
Occurs(s, sub) == \E i \in 1..(Len(s) + 1) : OccursAt(s, sub, i)

Last(s) == s[Len(s)]

ButLast(s) == SubSeq(s, 1, Len(s) - 1)

\* os.path.join(a, b) on a POSIX system
PathJoin(a, b) ==
    IF b # <<>> /\ b[1] = "/" THEN b
    ELSE IF a = <<>> \/ Last(a) = "/" THEN a \o b
    ELSE a \o <<"/">> \o b

\* all sequences over S of length at most n
SeqsUpTo(S, n) == UNION {[1..k -> S] : k \in 0..n}

(***************************************************************************)
(* The file system of the replay target.  A directory is known by its     *)
(* canonical form: whether the path is absolute, and its segments with    *)
(* empty and "." segments dropped.                                         *)
(***************************************************************************)
Canon(p) ==
    [abs  |-> (p # <<>> /\ p[1] = "/"),
     segs |-> SelectSeq(Split(p, "/"), LAMBDA g : g # <<>> /\ g # <<".">>)]

\* os.path.isdir(p)
IsDir(dirs, p) ==
    /\ p # <<>>
    /\ (Canon(p).segs = <<>> \/ Canon(p) \in dirs)

\* os.mkdir(p): "ok" or the exception it raises
MkdirResult(dirs, p) ==
    LET c == Canon(p)
        parent == [abs |-> c.abs, segs |-> ButLast(c.segs)]
    IN  IF p = <<>> THEN "FileNotFoundError"
        ELSE IF c.segs = <<>> \/ c \in dirs THEN "FileExistsError"
        ELSE IF parent.segs # <<>> /\ parent \notin dirs THEN "FileNotFoundError"
        ELSE "ok"

(***************************************************************************)
(* pickle: dump_file writes the catalogue (a list of 3-tuples              *)
(* (str, list of str, list of str)) as a stream of opcodes; load_file      *)
(* runs the stream on the unpickler's stack machine.                       *)
(***************************************************************************)
Tok(op, arg) == [op |-> op, arg |-> arg]

PickleStr(s) == <<Tok("UNICODE", s)>>

RECURSIVE Concat(_)
Concat(ss) == IF ss = <<>> THEN <<>> ELSE ss[1] \o Concat(Tail(ss))

\* save_list: EMPTY_LIST, then the items batched: one item APPEND, more MARK .. APPENDS
PickleList(items) ==
    <<Tok("EMPTY_LIST", <<>>)>> \o
    (IF Len(items) = 0 THEN <<>>
     ELSE IF Len(items) = 1 THEN items[1] \o <<Tok("APPEND", <<>>)>>
     ELSE <<Tok("MARK", <<>>)>> \o Concat(items) \o <<Tok("APPENDS", <<>>)>>)

PickleStrList(l) == PickleList([i \in 1..Len(l) |-> PickleStr(l[i])])

PickleEntry(e) ==
    PickleStr(e[1]) \o PickleStrList(e[2]) \o PickleStrList(e[3])
        \o <<Tok("TUPLE3", <<>>)>>

PickleDumpsReversed(obj) ==
    PickleList([i \in 1..Len(obj) |-> PickleEntry(obj[Len(obj) + 1 - i])])
        \o <<Tok("STOP", <<>>)>>

\* pickle.dumps(obj) for a catalogue
PickleDumps(obj) ==
    PickleList([i \in 1..Len(obj) |-> PickleEntry(obj[i])]) \o <<Tok("STOP", <<>>)>>

Item(t, v) == [t |-> t, v |-> v]

\* index of the topmost MARK on the stack, 0 when there is none
TopMark(stack) ==
    LET ms == {i \in 1..Len(stack) : stack[i].t = "mark"}
    IN  IF ms = {} THEN 0 ELSE CHOOSE i \in ms : \A j \in ms : j <= i

RECURSIVE Unpickle(_, _, _)
\* the unpickler: [ok |-> TRUE, val |-> object] at STOP, [ok |-> FALSE] on a bad stream
Unpickle(toks, i, stack) ==
    LET bad == [ok |-> FALSE, val |-> <<>>]
        n == Len(stack)
    IN  IF i > Len(toks) THEN bad
        ELSE LET op == toks[i].op IN
        IF op = "STOP" THEN
            IF n = 1 /\ stack[1].t # "mark" THEN [ok |-> TRUE, val |-> stack[1].v] ELSE bad
        ELSE IF op = "EMPTY_LIST" THEN Unpickle(toks, i + 1, Append(stack, Item("list", <<>>)))
        ELSE IF op = "MARK" THEN Unpickle(toks, i + 1, Append(stack, Item("mark", <<>>)))
        ELSE IF op = "UNICODE" THEN Unpickle(toks, i + 1, Append(stack, Item("str", toks[i].arg)))
        ELSE IF op = "APPEND" THEN
            IF n >= 2 /\ stack[n - 1].t = "list" /\ stack[n].t # "mark"
            THEN Unpickle(toks, i + 1,
                     Append(SubSeq(stack, 1, n - 2),
                            Item("list", Append(stack[n - 1].v, stack[n].v))))
            ELSE bad
        ELSE IF op = "APPENDS" THEN
            LET m == TopMark(stack) IN
            IF m >= 2 /\ stack[m - 1].t = "list"
            THEN Unpickle(toks, i + 1,
                     Append(SubSeq(stack, 1, m - 2),
                            Item("list", stack[m - 1].v \o
                                 [k \in 1..(n - m) |-> stack[m + k].v])))
            ELSE bad
        ELSE IF op = "TUPLE3" THEN
            IF n >= 3 /\ \A k \in (n - 2)..n : stack[k].t # "mark"
            THEN Unpickle(toks, i + 1,
                     Append(SubSeq(stack, 1, n - 3),
                            Item("tuple", <<stack[n - 2].v, stack[n - 1].v, stack[n].v>>)))
            ELSE bad
        ELSE bad

\* pickle.loads(data)
PickleLoads(data) == Unpickle(data, 1, <<>>)

\* a file: absent, or present with its content
NoFile == [exists |-> FALSE, data |-> <<>>]

FileOf(data) == [exists |-> TRUE, data |-> data]

\* dump_file(obj, file_name): the file open(file_name, 'wb') leaves behind
dump_file(obj) == FileOf(PickleDumps(obj))

\* load_file(file_name)
load_file(f) == PickleLoads(f.data)

(***************************************************************************)
(* Acquisition: libgenget.download and libgenget.get_book.  What the       *)
(* remote index and the mirror answer is the environment's choice, a       *)
(* response resp:                                                          *)
(*   search   "ok" or "neterr" (the search request fails)                  *)
(*   infos    the records get_info extracted from the result rows          *)
(*   sel      the indices the operator enters (interactive selection)      *)
(*   failAt   the position in finals at which a step fails (0: none)       *)
(*   failKind which step fails there: "page_neterr" (download page fetch), *)
(*            "page_noanchor" (no info anchor), "connect_neterr" (the      *)
(*            stream request), "stream_neterr" (while streaming chunks)    *)
(***************************************************************************)
\* get_better_name(book_name)
get_better_name(bn) == bn

\* the query term of download(): book_name, or derived from file_name
QueryTerm(bn, fn) == IF bn = <<>> THEN Split(Last(Split(fn, "/")), ".")[1] ELSE bn

RECURSIVE MaxScanLast(_, _, _)
MaxScanLast(pages, best, j) ==
    IF j > Len(pages) THEN best
    ELSE MaxScanLast(pages, IF pages[j] >= pages[best] THEN j ELSE best, j + 1)

RECURSIVE MaxScan(_, _, _)
\* max(infos, key=comparing): a linear scan that keeps the first largest key
MaxScan(pages, best, j) ==
    IF j > Len(pages) THEN best
    ELSE MaxScan(pages, IF pages[j] > pages[best] THEN j ELSE best, j + 1)

\* infos[k] with Python's indexing (k is 0-based, negative counts from the end):
\* the 1-based position, or 0 for IndexError
PyIndex(n, k) ==
    IF k >= 0 THEN (IF k < n THEN k + 1 ELSE 0)
    ELSE (IF k + n >= 0 THEN k + n + 1 ELSE 0)

\* to_be_downloaded(infos): the positions in infos of the records to download,
\* or <<0>> when indexing raises IndexError
to_be_downloaded(is, au, sel) ==
    IF au THEN <<MaxScan([i \in 1..Len(is) |-> is[i].pages], 1, 2)>>
    ELSE IF \E i \in 1..Len(sel) : PyIndex(Len(is), sel[i] - 1) = 0 THEN <<0>>
    ELSE [i \in 1..Len(sel) |-> PyIndex(Len(is), sel[i] - 1)]

\* str.lower() on the letters the model uses
LowerChar(c) ==
    CASE c = "P" -> "p" [] c = "D" -> "d" [] c = "F" -> "f"
      [] c = "E" -> "e" [] c = "U" -> "u" [] c = "B" -> "b" [] OTHER -> c

Lower(s) == [i \in 1..Len(s) |-> LowerChar(s[i])]

Outcome(ret, e, fs, ws, net) ==
    [ret |-> ret, err |-> e, finals |-> fs, writes |-> ws, net |-> net]

RECURSIVE DownloadLoop(_, _, _, _, _, _)
\* the loop "for final in finals" of download()
DownloadLoop(is, fs, k, fn, resp, ws) ==
    IF k > Len(fs) THEN Outcome("True", "", fs, ws, FALSE)
    ELSE
    LET final == is[fs[k]]
        fails(kind) == resp.failAt = k /\ resp.failKind = kind
        name == IF fn = <<>> THEN final.title \o Lower(final.type) ELSE fn
        w(done) == [name |-> name, rec |-> fs[k], complete |-> done]
    IN  IF final.download_page = <<>> THEN Outcome("raise", "MissingSchema", fs, ws, FALSE)
        ELSE IF fails("page_neterr") THEN Outcome("raise", "NetworkError", fs, ws, TRUE)
        ELSE IF fails("page_noanchor") THEN Outcome("raise", "IndexError", fs, ws, FALSE)
        ELSE IF fails("connect_neterr") THEN Outcome("raise", "NetworkError", fs, ws, TRUE)
        ELSE IF fails("stream_neterr")
            THEN Outcome("raise", "NetworkError", fs, Append(ws, w(FALSE)), TRUE)
        ELSE DownloadLoop(is, fs, k + 1, name, resp, Append(ws, w(TRUE)))

downloadZeroRaises(bn, fn, au, resp) ==
    IF bn = <<>> /\ fn = <<>> THEN Outcome("raise", "ValueError", <<>>, <<>>, FALSE)
    ELSE IF resp.search = "neterr" THEN Outcome("raise", "NetworkError", <<>>, <<>>, TRUE)
    ELSE IF Len(resp.infos) < 1 THEN Outcome("raise", "NotFoundError", <<>>, <<>>, FALSE)
    ELSE LET fs == to_be_downloaded(resp.infos, au, resp.sel) IN
         IF fs = <<0>> THEN Outcome("raise", "IndexError", <<>>, <<>>, FALSE)
         ELSE DownloadLoop(resp.infos, fs, 1, fn, resp, <<>>)

\* download(book_name, file_name, auto) against the response resp
download(bn, fn, au, resp) ==
    IF bn = <<>> /\ fn = <<>> THEN Outcome("raise", "ValueError", <<>>, <<>>, FALSE)
    ELSE IF resp.search = "neterr" THEN Outcome("raise", "NetworkError", <<>>, <<>>, TRUE)
    ELSE IF Len(resp.infos) < 1 THEN Outcome("False", "", <<>>, <<>>, FALSE)
    ELSE LET fs == to_be_downloaded(resp.infos, au, resp.sel) IN
         IF fs = <<0>> THEN Outcome("raise", "IndexError", <<>>, <<>>, FALSE)
         ELSE DownloadLoop(resp.infos, fs, 1, fn, resp, <<>>)

\* whether download() reached the search request, and what it asked and got
QueryOf(bn, fn, resp) ==
    IF bn = <<>> /\ fn = <<>> THEN <<>>
    ELSE <<[term |-> QueryTerm(bn, fn),
            n |-> IF resp.search = "neterr" THEN -1 ELSE Len(resp.infos)]>>

(***************************************************************************)
(* Catalogue build: create_catalogue_txt and create_catalogue_traversing. *)
(***************************************************************************)
\* lines 48-49: drop one trailing newline
StripNewline(line) == IF Last(line) = "\n" THEN ButLast(line) ELSE line

RECURSIVE ParseRec(_, _, _, _, _, _)
\* lines 43-65: the loop over the lines of the text file, and the final append
ParseRec(lines, k, first, path, files, cat) ==
    IF k > Len(lines) THEN Append(cat, <<path, <<>>, files>>)
    ELSE LET line == StripNewline(lines[k]) IN
         IF first
         THEN IF Contains(line, ".")
              THEN ParseRec(lines, k + 1, FALSE, <<".", "/">>, Append(files, line), cat)
              ELSE ParseRec(lines, k + 1, FALSE, line, files, cat)
         ELSE IF Contains(line, ".")
              THEN ParseRec(lines, k + 1, FALSE, path,
                       Append(files, Replace(Replace(line, path, <<>>), <<"/">>, <<>>)),
                       cat)
              ELSE ParseRec(lines, k + 1, FALSE, line, <<>>,
                       Append(cat, <<path, <<>>, files>>))

\* the catalogue create_catalogue_txt builds from the lines of the text file
ParseListing(lines) == ParseRec(lines, 1, TRUE, <<>>, <<>>, <<>>)

RECURSIVE WalkNoDirnames(_, _)
WalkNoDirnames(top, tree) ==
    << <<top, <<>>, tree.files>> >>
    \o Concat([i \in 1..Len(tree.dirs) |->
                  WalkNoDirnames(PathJoin(top, tree.dirs[i].name), tree.dirs[i].tree)])

RECURSIVE Walk(_, _)
\* os.walk(top), top-down: (dirpath, dirnames, filenames) of every directory
Walk(top, tree) ==
    << <<top, [i \in 1..Len(tree.dirs) |-> tree.dirs[i].name], tree.files>> >>
    \o Concat([i \in 1..Len(tree.dirs) |->
                  Walk(PathJoin(top, tree.dirs[i].name), tree.dirs[i].tree)])

\* list(os.walk(directory)): nothing when directory is not a directory
OsWalk(input) == IF input.kind = "dir" THEN Walk(input.path, input.tree) ELSE <<>>

\* get_relative(catalogue)
get_relative(cat) == cat

\* os.path.isfile
IsFile(kind) == kind = "file"

DestinationNeverTaken(dest) == FALSE

\* lines 38 and 81: os.path.isfile(file_name), the destination
DestinationTaken(dest) == IsFile(dest)

EmptyTree == [dirs |-> <<>>, files |-> <<>>]

\* an input path at which nothing exists
NoInput == [kind |-> "none", path |-> <<"n">>, lines |-> <<>>, tree |-> EmptyTree]

(***************************************************************************)
(* Inputs.                                                                 *)
(***************************************************************************)
ReplayChars == {"a", "/"}

\* nested and sibling directory paths, beside every short path over ReplayChars
NestedPaths ==
    { <<"b">>, <<"a", "/">>, <<"/", "a">>, <<"a", "/", "a">>, <<"a", "/", "b">>,
      <<"b", "/", "a">>, <<"a", "/", "b", "/", "c", "a">> }

ReplayPaths == SeqsUpTo(ReplayChars, MaxPathLen) \cup NestedPaths

ReplayFileLists == { <<>>, << <<"f", ".", "p">>, <<"g">> >> }

ReplayEntries == {<<p, <<>>, fl>> : p \in ReplayPaths, fl \in ReplayFileLists}

ReplayCatalogues == SeqsUpTo(ReplayEntries, MaxEntries)

\* the directories that exist in the target before the replay
PreExisting == { {}, {Canon(<<"a">>)}, {Canon(<<"b">>)} }

Url == <<"u">>

Rec(pages, dp) ==
    [title |-> <<"T">>, pages |-> pages, type |-> <<"P", "D", "F">>, download_page |-> dp]

PageCounts == {40, 100, 353}

Records == {Rec(n, dp) : n \in PageCounts, dp \in {<<>>, <<Url>>}}

\* the page counts of the documented selection example
ExamplePages == <<100, 353, 353, 40>>

ExampleInfos == [i \in 1..Len(ExamplePages) |-> Rec(ExamplePages[i], <<Url>>)]

FailKinds == {"page_neterr", "page_noanchor", "connect_neterr", "stream_neterr"}

\* the responses over the record lists of infosSet, automatic selection
Responses(infosSet) ==
    {[search |-> "neterr", infos |-> <<>>, sel |-> <<>>, failAt |-> 0, failKind |-> "none"]}
    \cup {[search |-> "ok", infos |-> is, sel |-> <<>>, failAt |-> 0, failKind |-> "none"] :
            is \in infosSet}
    \cup {[search |-> "ok", infos |-> is, sel |-> <<>>, failAt |-> 1, failKind |-> k] :
            is \in infosSet \ {<<>>}, k \in FailKinds}

ReplayResponses ==
    Responses({ <<>>, <<Rec(100, <<Url>>)>> })

AcquireResponses == Responses(SeqsUpTo(Records, MaxRecords) \cup {ExampleInfos})

(***************************************************************************)
(* Record extraction: get_info(res).  A row is the sequence of its td      *)
(* cells; a cell has its text and, when it holds an anchor, the href.      *)
(***************************************************************************)
Cell(text, a) == [text |-> text, a |-> a]

Digits == <<"0", "1", "2", "3", "4", "5", "6", "7", "8", "9">>

\* str.isdigit on one character
IsDigit(c) == \E i \in 1..Len(Digits) : Digits[i] = c

DigitValue(c) == (CHOOSE i \in 1..Len(Digits) : Digits[i] = c) - 1

RECURSIVE IntOf(_, _)
\* int(val) of a string of digits, read left to right
IntOf(ds, acc) == IF ds = <<>> THEN acc ELSE IntOf(Tail(ds), acc * Len(Digits) + DigitValue(ds[1]))

\* lines 24-28: the digits of the text, as an integer; 0 where int() raises
PagesOfText(text) ==
    LET val == SelectSeq(text, IsDigit) IN IF val = <<>> THEN 0 ELSE IntOf(val, 0)

\* line 40: the literal the links are tested against
TrustedPrefix == <<"h", "t", "t", "p", ":", "/", "/", "9", "3", ".", "1", "7", "4", ".", "9", "5", ".", "2", "9", "/", "_", "a", "d", "s", "/">>

\* lines 36-37: get_code(link)
get_code(link) == Last(Split(link, "/"))

RECURSIVE get_download_page(_)
\* lines 39-43: the first link the literal occurs in; <<>> for None
get_download_page(links) ==
    IF links = <<>> THEN <<>>
    ELSE IF Occurs(links[1], TrustedPrefix) THEN <<links[1]>>
    ELSE get_download_page(Tail(links))

Extracted(raised, info) == [raised |-> raised, info |-> info]

\* get_info(res), temp the td cells of res
get_info(temp) ==
    IF \E k \in {1, 2, 5, 6, 7, 8} : k >= Len(temp)
    THEN Extracted("IndexError", <<>>)
    ELSE LET cells == SubSeq(temp, 10, Len(temp) - 1)
             links == [i \in 1..Len(cells) |-> cells[i].a[1]]
         IN  IF \E i \in 1..Len(cells) : cells[i].a = <<>>
             THEN Extracted("TypeError", <<>>)
             ELSE IF links = <<>> THEN Extracted("IndexError", <<>>)
             ELSE Extracted("",
                      [author |-> temp[2].text, title |-> temp[3].text,
                       pages |-> PagesOfText(temp[6].text), lang |-> temp[7].text,
                       size |-> temp[8].text, type |-> temp[9].text,
                       links |-> links, code |-> get_code(links[1]),
                       download_page |-> get_download_page(links)])

AdsLink == <<"h", "t", "t", "p", ":", "/", "/", "9", "3", ".", "1", "7", "4", ".", "9", "5", ".", "2", "9", "/", "_", "a", "d", "s", "/", "7">>

OtherLink == <<"h", "t", "t", "p", ":", "/", "/", "l", ".", "i", "o", "/", "7">>

\* a link of another host that carries the literal inside its query
EmbeddedLink == <<"h", "t", "t", "p", ":", "/", "/", "l", ".", "i", "o", "/", "?", "r", "=", "h", "t", "t", "p", ":", "/", "/", "9", "3", ".", "1", "7", "4", ".", "9", "5", ".", "2", "9", "/", "_", "a", "d", "s", "/", "7">>

LinkCells ==
    {Cell(<<"m">>, <<l>>) : l \in {AdsLink, OtherLink, EmbeddedLink}} \cup {Cell(<<"m">>, <<>>)}

PageTexts == {<<"3", "5", "3", " ", "p", ".">>, <<"N", "/", "A">>, <<>>}

\* the cells before the links: id, author, title, publisher, year, pages, language,
\* size, type
LeadingCells(pages) ==
    <<Cell(<<"7">>, <<>>), Cell(<<"x">>, <<>>), Cell(<<"T">>, <<>>), Cell(<<"y">>, <<>>),
      Cell(<<"1", "9">>, <<>>), Cell(pages, <<>>), Cell(<<"e", "n">>, <<>>),
      Cell(<<"1", " ", "M", "b">>, <<>>), Cell(<<"P", "D", "F">>, <<>>)>>

\* rows cut short, and rows with up to MaxLinks link cells before the last cell
Rows ==
    {SubSeq(LeadingCells(t), 1, k) : t \in PageTexts, k \in 0..Len(LeadingCells(<<>>))}
    \cup {LeadingCells(t) \o ls \o <<Cell(<<"e">>, <<OtherLink>>)>> :
             t \in PageTexts, ls \in SeqsUpTo(LinkCells, MaxLinks)}

\* the value of "extracted" before get_info has run
NotExtracted == [raised |-> "", info |-> <<>>]

(***************************************************************************)
(* Exceptions: the type and the place that raised it.                      *)
(***************************************************************************)
Exc(type, at) == [type |-> type, at |-> at]

NoExc == Exc("", "")

CatalogueMissing == Exc("ValueError", "traverse_catalogue:100")

BadPickle == Exc("EOFError", "load_file:10")

EmptyCatalogue == Exc("IndexError", "traverse_catalogue:102")

DirectoryExists == Exc("ValueError", "traverse_catalogue:110")

EmptyPath == Exc("IndexError", "traverse_catalogue:115")

MkdirFailed(type) == Exc(type, "traverse_catalogue:118")

AcquireFailed(type) == Exc(type, "download")

(***************************************************************************)
(* get_book: the first call of download, and the retry.                    *)
(***************************************************************************)
RetryAlways(ret) == ret # "raise"

\* get_book retries when the first download() returned False
RetryNeeded(ret) == ret = "False"

GetBookStep(resp, first) ==
    LET out == download(book_name, file_name, auto, resp)
        false == IF first THEN RetryNeeded(out.ret) ELSE out.ret = "False"
    IN
    /\ queries' = queries \o QueryOf(book_name, file_name, resp)
    /\ infos' = resp.infos
    /\ selection' = resp.sel
    /\ finals' = out.finals
    /\ gbWrites' = gbWrites \o out.writes
    /\ netFailed' = (netFailed \/ out.net)
    /\ IF out.ret = "raise"
       THEN /\ pc' = "raised"
            /\ err' = AcquireFailed(out.err)
            /\ UNCHANGED <<gbRet, book_name>>
       ELSE IF false
       THEN /\ pc' = IF first THEN "retry" ELSE "gb_done"
            /\ gbRet' = IF first THEN "none" ELSE "False"
            /\ book_name' = IF first THEN get_better_name(book_name) ELSE book_name
            /\ err' = err
       ELSE /\ pc' = "gb_done"
            /\ gbRet' = "True"
            /\ UNCHANGED <<err, book_name>>
    /\ UNCHANGED <<catFile, fsDirs, catalogue, base_dir, replace_path, idx, fidx,
                   path_, created, invoked, file_name, auto, loaded, row, extracted,
                   bInput, bDest, bRead>>

\* get_book, line 95: the first download()
GetBookFirst(R) ==
    /\ pc = "get_book"
    /\ \E resp \in R : GetBookStep(resp, TRUE)

\* get_book, lines 96-99: the second download(), with the better name
GetBookSecond(R) ==
    /\ pc = "retry"
    /\ \E resp \in R : GetBookStep(resp, FALSE)

(***************************************************************************)
(* Replay: traverse_catalogue(file_name, get_book).                        *)
(***************************************************************************)
\* what the part of the code before the loop creates: line 111 is commented out
StartMkdirBase(base) == <<base>>

StartMkdir(base) == <<>>

BaseOf(root) == Last(Split(root, "/"))

ReplaceOf(root) ==
    IF Len(Split(root, "/")) <= 1 THEN <<>> ELSE Join(ButLast(Split(root, "/")), <<"/">>)

GuardNever(dirs, base) == FALSE

\* line 109: os.path.isdir(base_dir)
GuardTrips(dirs, base) == IsDir(dirs, base)

\* lines 114-116: the path of an entry as replay uses it; <<>> where path_[0] raises
NormalisedPath(p, rp) ==
    LET p1 == Replace(p, rp, <<>>)
    IN  IF p1 = <<>> THEN <<>> ELSE IF p1[1] = "/" THEN Tail(p1) ELSE p1

PathIsEmpty(p, rp) == Replace(p, rp, <<>>) = <<>>

AcquireUnchanged ==
    UNCHANGED <<book_name, file_name, auto, queries, gbRet, gbWrites, infos, finals,
                netFailed>>

OtherUnchanged == UNCHANGED <<loaded, selection, row, extracted, bInput, bDest, bRead>>

Raise(e) ==
    /\ pc' = "raised"
    /\ err' = e

\* lines 99-111: check the file, load it, compute base_dir and replace_path, guard
TraverseStart ==
    /\ pc = "start"
    /\ IF ~catFile.exists
       THEN Raise(CatalogueMissing)
                /\ UNCHANGED <<catalogue, base_dir, replace_path, idx, created, fsDirs>>
       ELSE LET r == load_file(catFile) IN
       IF ~r.ok
       THEN Raise(BadPickle)
                /\ UNCHANGED <<catalogue, base_dir, replace_path, idx, created, fsDirs>>
       ELSE IF r.val = <<>>
       THEN Raise(EmptyCatalogue) /\ catalogue' = r.val
                /\ UNCHANGED <<base_dir, replace_path, idx, created, fsDirs>>
       ELSE LET base == BaseOf(r.val[1][1]) IN
            /\ catalogue' = r.val
            /\ base_dir' = base
            /\ replace_path' = ReplaceOf(r.val[1][1])
            /\ IF GuardTrips(fsDirs, base)
               THEN Raise(DirectoryExists) /\ UNCHANGED <<idx, created, fsDirs>>
               ELSE /\ pc' = "loop"
                    /\ idx' = 1
                    /\ err' = err
                    /\ created' = created \o StartMkdir(base)
                    /\ fsDirs' = fsDirs \cup
                           {Canon(StartMkdir(base)[i]) : i \in 1..Len(StartMkdir(base))}
    /\ UNCHANGED <<catFile, fidx, path_, invoked>>
    /\ AcquireUnchanged /\ OtherUnchanged

\* lines 113-118: the next entry: normalise its path and make the directory
NextEntry ==
    /\ pc = "loop"
    /\ IF idx > Len(catalogue)
       THEN pc' = "done" /\ UNCHANGED <<err, path_, fsDirs, created, fidx>>
       ELSE LET p == NormalisedPath(catalogue[idx][1], replace_path)
                mk == MkdirResult(fsDirs, p)
            IN  IF PathIsEmpty(catalogue[idx][1], replace_path)
                THEN Raise(EmptyPath) /\ UNCHANGED <<path_, fsDirs, created, fidx>>
                ELSE IF mk # "ok"
                THEN Raise(MkdirFailed(mk)) /\ path_' = p
                         /\ UNCHANGED <<fsDirs, created, fidx>>
                ELSE /\ pc' = "files"
                     /\ path_' = p
                     /\ fsDirs' = fsDirs \cup {Canon(p)}
                     /\ created' = Append(created, p)
                     /\ fidx' = 1
                     /\ err' = err
    /\ UNCHANGED <<catFile, catalogue, base_dir, replace_path, idx, invoked>>
    /\ AcquireUnchanged /\ OtherUnchanged

\* lines 119-121: the next file of the entry: call action_function(file_name=...)
NextFile ==
    /\ pc = "files"
    /\ IF fidx > Len(catalogue[idx][3])
       THEN /\ pc' = "loop"
            /\ idx' = idx + 1
            /\ UNCHANGED <<invoked, book_name, file_name, auto, queries, gbRet, gbWrites>>
       ELSE /\ pc' = "get_book"
            /\ invoked' = Append(invoked, PathJoin(path_, catalogue[idx][3][fidx]))
            /\ file_name' = PathJoin(path_, catalogue[idx][3][fidx])
            /\ book_name' = <<>>
            /\ auto' = TRUE
            /\ queries' = <<>>
            /\ gbRet' = "none"
            /\ gbWrites' = <<>>
            /\ idx' = idx
    /\ UNCHANGED <<err, catFile, fsDirs, catalogue, base_dir, replace_path, fidx, path_,
                   created, infos, finals, netFailed>>
    /\ OtherUnchanged

\* line 122: the action returned (True or False): on to the next file
ActionReturn ==
    /\ pc = "gb_done"
    /\ pc' = "files"
    /\ fidx' = fidx + 1
    /\ UNCHANGED <<err, catFile, fsDirs, catalogue, base_dir, replace_path, idx, path_,
                   created, invoked>>
    /\ AcquireUnchanged /\ OtherUnchanged

ReplayGetBookFirst == GetBookFirst(ReplayResponses)

ReplayGetBookSecond == GetBookSecond(ReplayResponses)

Idle ==
    /\ book_name = <<>> /\ file_name = <<>> /\ auto = TRUE /\ queries = <<>>
    /\ gbRet = "none" /\ gbWrites = <<>> /\ infos = <<>> /\ finals = <<>>
    /\ netFailed = FALSE /\ err = NoExc
    /\ catalogue = <<>> /\ base_dir = <<>> /\ replace_path = <<>> /\ idx = 0 /\ fidx = 0
    /\ path_ = <<>> /\ created = <<>> /\ invoked = <<>>
    /\ loaded = [ok |-> FALSE, val |-> <<>>]
    /\ selection = <<>> /\ row = <<>> /\ extracted = NotExtracted
    /\ bInput = NoInput
    /\ bDest = "absent" /\ bRead = FALSE

InitReplay ==
    /\ Idle
    /\ pc = "start"
    /\ catFile \in {NoFile, FileOf(<<>>)} \cup {dump_file(c) : c \in ReplayCatalogues}
    /\ fsDirs \in PreExisting

NextReplay ==
    \/ TraverseStart
    \/ NextEntry
    \/ NextFile
    \/ ReplayGetBookFirst
    \/ ReplayGetBookSecond
    \/ ActionReturn

SpecReplay == InitReplay /\ [][NextReplay]_vars

(***************************************************************************)
(* Acquisition on its own: get_book(book_name, file_name).                 *)
(***************************************************************************)
AcquireGetBookFirst == GetBookFirst(AcquireResponses)

AcquireGetBookSecond == GetBookSecond(AcquireResponses)

InitAcquire ==
    /\ catalogue = <<>> /\ base_dir = <<>> /\ replace_path = <<>> /\ idx = 0 /\ fidx = 0
    /\ path_ = <<>> /\ created = <<>> /\ invoked = <<>>
    /\ loaded = [ok |-> FALSE, val |-> <<>>]
    /\ selection = <<>> /\ row = <<>> /\ extracted = NotExtracted
    /\ bInput = NoInput
    /\ bDest = "absent" /\ bRead = FALSE
    /\ catFile = NoFile /\ fsDirs = {}
    /\ pc = "get_book" /\ err = NoExc
    /\ book_name \in {<<>>, <<"b">>}
    /\ file_name \in {<<>>, <<"d", "/", "f", ".", "p">>,
                       <<"d", "/", "a", ".", "b", ".", "p">>}
    /\ auto = TRUE
    /\ queries = <<>> /\ gbRet = "none" /\ gbWrites = <<>> /\ infos = <<>>
    /\ finals = <<>> /\ netFailed = FALSE

NextAcquire ==
    \/ AcquireGetBookFirst
    \/ AcquireGetBookSecond

SpecAcquire == InitAcquire /\ [][NextAcquire]_vars

(***************************************************************************)
(* Acquisition with the operator at the prompt: get_book(..., auto).       *)
(***************************************************************************)
TitledRec(title, type) ==
    [title |-> title, pages |-> 100, type |-> type, download_page |-> <<Url>>]

ExampleRecord ==
    TitledRec(<<"E", "x", "a", "m", "p", "l", "e", " ", "B", "o", "o", "k">>,
              <<"P", "D", "F">>)

TitledRecords ==
    {TitledRec(<<"A">>, <<"P", "D", "F">>), TitledRec(<<"B">>, <<"E", "P", "U", "B">>)}

\* input().split(): the indices the operator may enter, in and out of range
Selections == SeqsUpTo(-1..(MaxRecords + 1), MaxSelected)

InteractiveResponses ==
    {[search |-> "ok", infos |-> is, sel |-> sel, failAt |-> 0, failKind |-> "none"] :
        is \in SeqsUpTo(TitledRecords, MaxRecords) \cup {<<ExampleRecord>>},
        sel \in Selections}

InteractiveGetBookFirst == GetBookFirst(InteractiveResponses)

InteractiveGetBookSecond == GetBookSecond(InteractiveResponses)

InitInteractive ==
    /\ catalogue = <<>> /\ base_dir = <<>> /\ replace_path = <<>> /\ idx = 0 /\ fidx = 0
    /\ path_ = <<>> /\ created = <<>> /\ invoked = <<>>
    /\ loaded = [ok |-> FALSE, val |-> <<>>]
    /\ selection = <<>> /\ row = <<>> /\ extracted = NotExtracted
    /\ bInput = NoInput
    /\ bDest = "absent" /\ bRead = FALSE
    /\ catFile = NoFile /\ fsDirs = {}
    /\ pc = "get_book" /\ err = NoExc
    /\ book_name = <<"b">>
    /\ file_name \in {<<>>, <<"d", "/", "f", ".", "p">>}
    /\ auto \in BOOLEAN
    /\ queries = <<>> /\ gbRet = "none" /\ gbWrites = <<>> /\ infos = <<>>
    /\ finals = <<>> /\ netFailed = FALSE

NextInteractive ==
    \/ InteractiveGetBookFirst
    \/ InteractiveGetBookSecond

SpecInteractive == InitInteractive /\ [][NextInteractive]_vars

(***************************************************************************)
(* Record extraction on its own: get_info(res) for one row.                *)
(***************************************************************************)
GetInfo ==
    /\ pc = "get_info"
    /\ extracted' = get_info(row)
    /\ pc' = "extracted"
    /\ UNCHANGED <<err, catFile, catalogue, bRead, fsDirs, base_dir, replace_path, idx,
                   fidx, path_, created, invoked, loaded, selection, row, bInput, bDest>>
    /\ AcquireUnchanged

InitExtract ==
    /\ book_name = <<>> /\ file_name = <<>> /\ auto = TRUE /\ queries = <<>>
    /\ gbRet = "none" /\ gbWrites = <<>> /\ infos = <<>> /\ finals = <<>>
    /\ netFailed = FALSE /\ err = NoExc
    /\ catalogue = <<>> /\ base_dir = <<>> /\ replace_path = <<>> /\ idx = 0 /\ fidx = 0
    /\ path_ = <<>> /\ created = <<>> /\ invoked = <<>>
    /\ loaded = [ok |-> FALSE, val |-> <<>>]
    /\ selection = <<>> /\ extracted = NotExtracted
    /\ bInput = NoInput
    /\ bDest = "absent" /\ bRead = FALSE
    /\ catFile = NoFile /\ fsDirs = {}
    /\ pc = "get_info"
    /\ row \in Rows

NextExtract == GetInfo

SpecExtract == InitExtract /\ [][NextExtract]_vars

(***************************************************************************)
(* Properties of replay.                                                   *)
(***************************************************************************)
RECURSIVE TotalFiles(_)
TotalFiles(cat) == IF cat = <<>> THEN 0 ELSE Len(cat[1][3]) + TotalFiles(Tail(cat))

\* the part of p after its last "/"
LastSegment(p) ==
    LET slashes == {i \in 1..Len(p) : p[i] = "/"}
    IN  IF slashes = {} THEN p
        ELSE SubSeq(p, (CHOOSE i \in slashes : \A j \in slashes : j <= i) + 1, Len(p))

\* the directories that existed before this replay made any
PreDirs == fsDirs \ {Canon(created[i]) : i \in 1..Len(created)}

ReplayEnded == pc \in {"done", "raised"}

NoSideEffect == created = <<>> /\ invoked = <<>> /\ fsDirs = PreDirs

\* C1: a transport failure (NetworkError) during the acquisition of one file makes
\* only that file fail: when the replay has ended and nothing but transport failures
\* happened, every directory of the catalogue was created and the per-file action
\* was invoked for every file of the catalogue.
C1_NetworkFailureIsolated ==
    (ReplayEnded /\ netFailed /\ err.type \in {"", "NetworkError"})
        => (Len(created) = Len(catalogue) /\ Len(invoked) = TotalFiles(catalogue))

\* C2: if a directory named basePath (the last segment of the first entry's path)
\* exists in the target, traverse_catalogue fails with the ValueError of the guard,
\* and at that moment no directory has been created and no action invoked.
C2_BaseDirGuard ==
    (pc # "start" /\ catalogue # <<>> /\ IsDir(PreDirs, LastSegment(catalogue[1][1])))
        => (pc = "raised" /\ err = DirectoryExists /\ NoSideEffect)

C2_Witness ==
    /\ pc = "raised" /\ err = DirectoryExists
    /\ Len(catalogue) = 2 /\ TotalFiles(catalogue) > 0

\* the failures the claim calls structural, as stated: a missing catalogue file, an
\* empty catalogue, an unusable root path, an existing target directory of any entry
StructuralAsClaimed ==
    \/ err \in {CatalogueMissing, BadPickle, EmptyCatalogue, DirectoryExists}
    \/ idx = 1 /\ err \in {EmptyPath, MkdirFailed("FileNotFoundError")}
    \/ err = MkdirFailed("FileExistsError") /\ Canon(path_) \in PreDirs

\* the same with the existing target directory limited to the base directory and
\* the first entry
StructuralAtStart ==
    \/ err \in {CatalogueMissing, BadPickle, EmptyCatalogue, DirectoryExists}
    \/ idx = 1 /\ err \in {EmptyPath, MkdirFailed("FileNotFoundError"),
                           MkdirFailed("FileExistsError")}

\* C3 as stated: whenever replay aborts because of a structural failure, the target
\* directory of any entry existing included, nothing was created and no action invoked.
C3_StructuralAbortAnyEntry ==
    (pc = "raised" /\ StructuralAsClaimed) => NoSideEffect

\* C3 amended: whenever replay aborts because the catalogue file is missing or
\* unreadable, the catalogue is empty, its root path is unusable, or the base
\* directory (the first entry's target) exists, nothing was created and no action
\* was invoked.
C3_StructuralAbortAtStart ==
    (pc = "raised" /\ StructuralAtStart) => NoSideEffect

C3_Witness ==
    /\ pc = "raised" /\ idx = 1 /\ err = MkdirFailed("FileNotFoundError")
    /\ Len(catalogue) = 2

\* C4: when the search yields zero records the acquisition does not raise and
\* writes no file; after the first empty search get_book retries, after the second
\* it returns False, and the replay goes on.
C4_ZeroRecordsReturnFalse ==
    (queries # <<>> /\ Last(queries).n = 0)
        => /\ err.at # "download"
           /\ gbWrites = <<>>
           /\ (Len(queries) = 1 => pc = "retry" /\ gbRet = "none")
           /\ (Len(queries) = 2 => gbRet = "False" /\ pc # "retry" /\ pc # "get_book")

C4_Witness ==
    /\ gbRet = "False" /\ pc = "files" /\ fidx = 2 /\ Len(catalogue[idx][3]) >= 2
    /\ Last(queries).n = 0

(***************************************************************************)
(* Properties of the acquisition.                                          *)
(***************************************************************************)
\* C5: get_book searches at most twice; the second search is issued if and only if
\* the first yielded zero records; it returns False if and only if both yielded
\* zero records; when the first yields a record there is no retry and one download.
C5_AtMostOneRetry ==
    /\ Len(queries) <= 2
    /\ (Len(queries) = 2 => queries[1].n = 0)
    /\ (pc = "retry" => Len(queries) = 1 /\ queries[1].n = 0)
    /\ (queries # <<>> /\ queries[1].n > 0 => Len(queries) = 1 /\ Len(gbWrites) <= 1)
    /\ (pc = "gb_done" =>
          /\ queries # <<>>
          /\ (queries[1].n = 0 => Len(queries) = 2)
          /\ (gbRet = "False" <=>
                (Len(queries) = 2 /\ queries[1].n = 0 /\ queries[2].n = 0))
          /\ (gbRet = "True" => Len(gbWrites) = 1 /\ gbWrites[1].complete))

C5_Witness ==
    /\ pc = "gb_done" /\ gbRet = "True" /\ Len(queries) = 2
    /\ queries[1].n = 0 /\ queries[2].n > 0

PagesOf(is) == [i \in 1..Len(is) |-> is[i].pages]

\* i is the lowest index of is whose pageCount is the maximum pageCount
IsFirstMax(is, i) ==
    /\ i \in 1..Len(is)
    /\ \A j \in 1..Len(is) : is[j].pages <= is[i].pages
    /\ \A j \in 1..(i - 1) : is[j].pages < is[i].pages

\* C10: automatic selection returns exactly one record, the one at the lowest index
\* among those whose pageCount is the maximum; for page counts [100, 353, 353, 40]
\* it is the record at the second position.
C10_AutoSelectsFirstMax ==
    (auto /\ finals # <<>>)
        => /\ Len(finals) = 1
           /\ IsFirstMax(infos, finals[1])
           /\ (PagesOf(infos) = ExamplePages => finals = <<2>>)

C10_Witness == auto /\ PagesOf(infos) = ExamplePages /\ finals = <<2>>

(***************************************************************************)
(* Build: mydlib.create_catalogue(fname, catalogue_name).                  *)
(***************************************************************************)
\* the lines a text listing is made of
ListingLines ==
    { <<>>, <<"a">>, <<"a", "/", "f", ".", "p">>, <<"a", "/", "b">>,
      <<"a", "/", "b", "/", "g", ".", "p">>, <<"a", "/", "a", ".", "a">>,
      <<"f", ".", "p">> }

\* the documented listing: books, books/a.pdf, books/sub, books/sub/b.pdf
ExampleListing ==
    << <<"b", "o", "o", "k", "s">>,
       <<"b", "o", "o", "k", "s", "/", "a", ".", "p", "d", "f">>,
       <<"b", "o", "o", "k", "s", "/", "s", "u", "b">>,
       <<"b", "o", "o", "k", "s", "/", "s", "u", "b", "/", "b", ".", "p", "d", "f">> >>

\* the model documented for it
ExampleModel ==
    << <<<<"b", "o", "o", "k", "s">>, <<>>, <<<<"a", ".", "p", "d", "f">>>>>>,
       <<<<"b", "o", "o", "k", "s", "/", "s", "u", "b">>, <<>>, <<<<"b", ".", "p", "d", "f">>>>>> >>

\* the file made of the lines ls, ending with a newline or not
RawLines(ls, trailing) ==
    [i \in 1..Len(ls) |-> IF i < Len(ls) \/ trailing THEN ls[i] \o <<"\n">> ELSE ls[i]]

TextFiles ==
    {[kind |-> "file", path |-> <<"l">>, lines |-> RawLines(ls, t), tree |-> EmptyTree] :
        ls \in {l \in SeqsUpTo(ListingLines, MaxLines) \cup {ExampleListing} :
                   l = <<>> \/ Last(l) # <<>>},
        t \in BOOLEAN}
    \cup
    {[kind |-> "file", path |-> <<"l">>, lines |-> RawLines(ls, TRUE), tree |-> EmptyTree] :
        ls \in {l \in SeqsUpTo(ListingLines, MaxLines) : l # <<>> /\ Last(l) = <<>>}}

Leaf(name, files) == [name |-> name, tree |-> [dirs |-> <<>>, files |-> files]]

ScanTrees ==
    { EmptyTree,
      [dirs |-> <<>>, files |-> << <<"f", ".", "p">> >>],
      [dirs |-> <<Leaf(<<"b">>, << <<"g", ".", "p">> >>)>>, files |-> << <<"f", ".", "p">> >>],
      [dirs |-> <<Leaf(<<"b">>, <<>>), Leaf(<<"c">>, << <<"g">> >>)>>, files |-> <<>>] }

Directories ==
    {[kind |-> "dir", path |-> p, lines |-> <<>>, tree |-> t] :
        p \in {<<"a">>, <<"x", "/", "a">>}, t \in ScanTrees}

BuildInputs == {NoInput} \cup TextFiles \cup Directories

\* what an existing destination file holds before the build
OldFile == FileOf(<<Tok("EMPTY_LIST", <<>>), Tok("STOP", <<>>)>>)

DestinationBefore == IF bDest = "file" THEN OldFile ELSE NoFile

BuildUnchanged ==
    UNCHANGED <<fsDirs, base_dir, replace_path, idx, fidx, path_, created, invoked,
                loaded, selection, row, extracted, bInput, bDest>>

\* dump_file(catalogue, file_name), lines 6-7: open(file_name, 'wb') and pickle.dump
DumpCatalogue(cat) ==
    IF bDest = "dir"
    THEN Raise(Exc("IsADirectoryError", "dump_file:6")) /\ catFile' = catFile
    ELSE pc' = "built" /\ err' = err /\ catFile' = dump_file(cat)

\* mydlib.py lines 13-16: dispatch on os.path.isfile(fname)
CreateCatalogue ==
    /\ pc = "create"
    /\ pc' = IF IsFile(bInput.kind) THEN "txt" ELSE "scan"
    /\ UNCHANGED <<err, catFile, catalogue, bRead>>
    /\ BuildUnchanged /\ AcquireUnchanged

\* traverser.py lines 38-68
CreateCatalogueTxt ==
    /\ pc = "txt"
    /\ IF DestinationTaken(bDest)
       THEN Raise(Exc("ValueError", "create_catalogue_txt:39"))
                /\ UNCHANGED <<catFile, catalogue, bRead>>
       ELSE IF ~IsFile(bInput.kind)
       THEN Raise(Exc("ValueError", "create_catalogue_txt:41"))
                /\ UNCHANGED <<catFile, catalogue, bRead>>
       ELSE /\ bRead' = TRUE
            /\ catalogue' = ParseListing(bInput.lines)
            /\ DumpCatalogue(ParseListing(bInput.lines))
    /\ BuildUnchanged /\ AcquireUnchanged

\* traverser.py lines 81-91
CreateCatalogueTraversing ==
    /\ pc = "scan"
    /\ IF DestinationTaken(bDest)
       THEN Raise(Exc("ValueError", "create_catalogue_traversing:82"))
                /\ UNCHANGED <<catFile, catalogue, bRead>>
       ELSE /\ bRead' = TRUE
            /\ catalogue' = get_relative(OsWalk(bInput))
            /\ DumpCatalogue(get_relative(OsWalk(bInput)))
    /\ BuildUnchanged /\ AcquireUnchanged

InitBuild ==
    /\ book_name = <<>> /\ file_name = <<>> /\ auto = TRUE /\ queries = <<>>
    /\ gbRet = "none" /\ gbWrites = <<>> /\ infos = <<>> /\ finals = <<>>
    /\ netFailed = FALSE /\ err = NoExc
    /\ catalogue = <<>> /\ base_dir = <<>> /\ replace_path = <<>> /\ idx = 0 /\ fidx = 0
    /\ path_ = <<>> /\ created = <<>> /\ invoked = <<>>
    /\ loaded = [ok |-> FALSE, val |-> <<>>]
    /\ selection = <<>> /\ row = <<>> /\ extracted = NotExtracted
    /\ fsDirs = {}
    /\ pc = "create"
    /\ bInput \in BuildInputs
    /\ bDest \in {"absent", "file", "dir"}
    /\ catFile = DestinationBefore
    /\ bRead = FALSE

NextBuild ==
    \/ CreateCatalogue
    \/ CreateCatalogueTxt
    \/ CreateCatalogueTraversing

SpecBuild == InitBuild /\ [][NextBuild]_vars

(***************************************************************************)
(* Store: dump_file(M, f) followed by load_file(f).                        *)
(***************************************************************************)
StoreEntries ==
    {<<p, ds, fl>> :
        p \in {<<"a">>, <<"a", "/", "b">>},
        ds \in {<<>>, << <<"b">> >>},
        fl \in {<<>>, << <<"f", ".", "p">> >>, << <<"f", ".", "p">>, <<"g">> >>}}

StoreCatalogues == SeqsUpTo(StoreEntries, MaxEntries)

DumpFile ==
    /\ pc = "dump"
    /\ catFile' = dump_file(catalogue)
    /\ pc' = "load"
    /\ UNCHANGED <<err, catalogue, bRead>>
    /\ BuildUnchanged /\ AcquireUnchanged

LoadFile ==
    /\ pc = "load"
    /\ loaded' = load_file(catFile)
    /\ pc' = "loaded"
    /\ UNCHANGED <<err, catFile, catalogue, bRead, fsDirs, base_dir, replace_path, idx,
                   fidx, path_, created, invoked, selection, row, extracted, bInput,
                   bDest>>
    /\ AcquireUnchanged

InitStore ==
    /\ book_name = <<>> /\ file_name = <<>> /\ auto = TRUE /\ queries = <<>>
    /\ gbRet = "none" /\ gbWrites = <<>> /\ infos = <<>> /\ finals = <<>>
    /\ netFailed = FALSE /\ err = NoExc
    /\ base_dir = <<>> /\ replace_path = <<>> /\ idx = 0 /\ fidx = 0
    /\ path_ = <<>> /\ created = <<>> /\ invoked = <<>>
    /\ loaded = [ok |-> FALSE, val |-> <<>>]
    /\ selection = <<>> /\ row = <<>> /\ extracted = NotExtracted
    /\ fsDirs = {} /\ bInput = NoInput /\ bDest = "absent" /\ bRead = FALSE
    /\ pc = "dump"
    /\ catalogue \in StoreCatalogues
    /\ catFile = NoFile

NextStore ==
    \/ DumpFile
    \/ LoadFile

SpecStore == InitStore /\ [][NextStore]_vars

(***************************************************************************)
(* Build, then replay of the catalogue built: create_catalogue followed by *)
(* create_library on the same catalogue name.                              *)
(***************************************************************************)
\* mydlib.py lines 19-25: create_library calls traverse_catalogue(catalogue_name, get_book)
CreateLibrary ==
    /\ pc = "built"
    /\ pc' = "start"
    /\ catalogue' = <<>>
    /\ UNCHANGED <<err, catFile, bRead>>
    /\ BuildUnchanged /\ AcquireUnchanged

InitPipeline == InitBuild /\ bDest = "absent"

NextPipeline ==
    \/ CreateCatalogue
    \/ CreateCatalogueTxt
    \/ CreateCatalogueTraversing
    \/ CreateLibrary
    \/ TraverseStart
    \/ NextEntry
    \/ NextFile
    \/ ReplayGetBookFirst
    \/ ReplayGetBookSecond
    \/ ActionReturn

SpecPipeline == InitPipeline /\ [][NextPipeline]_vars

(***************************************************************************)
(* Properties of the build.                                                *)
(***************************************************************************)
BuildEnded == pc \in {"built", "raised"}

C7_ExistingDestinationPath ==
    (bDest # "absent" /\ BuildEnded)
        => (pc = "raised" /\ err.type = "ValueError" /\ ~bRead
            /\ catFile = DestinationBefore)

\* C7 amended: in both build modes, if the destination path is an existing regular
\* file, the build fails with a ValueError before the input is read or scanned, and
\* the existing file is left unchanged.
C7_ExistingDestinationFile ==
    (bDest = "file" /\ pc \notin {"create"})
        => (pc \in {"txt", "scan", "raised"} /\ ~bRead /\ catFile = OldFile
            /\ (pc = "raised" => err.type = "ValueError"))

C7_Witness ==
    /\ bDest = "file" /\ pc = "raised" /\ bInput.kind = "dir"
    /\ bInput.tree # EmptyTree

\* a line is a directory line when it holds no "."
IsDirLine(l) == ~Contains(l, ".")

\* the text of a line of the file, without its newline
LineText(raw) == SelectSeq(raw, LAMBDA c : c # "\n")

\* l with the leading d removed, when l starts with d
StripDirPrefix(l, d) ==
    IF Len(d) <= Len(l) /\ SubSeq(l, 1, Len(d)) = d
    THEN SubSeq(l, Len(d) + 1, Len(l)) ELSE l

NoSlashes(l) == SelectSeq(l, LAMBDA c : c # "/")

\* the model the claim describes for the listing L (its first line a directory line)
ExpectedModel(L) ==
    LET ds == SelectSeq([i \in 1..Len(L) |-> i], LAMBDA i : IsDirLine(L[i]))
        nxt(k) == IF k < Len(ds) THEN ds[k + 1] ELSE Len(L) + 1
    IN  [k \in 1..Len(ds) |->
            <<L[ds[k]], <<>>,
              [j \in 1..(nxt(k) - ds[k] - 1) |->
                  NoSlashes(StripDirPrefix(L[ds[k] + j], L[ds[k]]))]>>]

Listing == [i \in 1..Len(bInput.lines) |-> LineText(bInput.lines[i])]

\* C8: text-listing mode, first line a directory line: one entry for the first line
\* and one per later directory line, in line order, each (the directory line, [],
\* the file lines that follow it, directory prefix and slashes stripped).
C8_TextListingModel ==
    (pc = "built" /\ bInput.kind = "file" /\ Listing # <<>> /\ IsDirLine(Listing[1]))
        => catalogue = ExpectedModel(Listing)

\* the documented example of C8 on its own: the listing books, books/a.pdf,
\* books/sub, books/sub/b.pdf yields ("books", [], ["a.pdf"]), ("books/sub", [], ["b.pdf"])
C8_ExampleListing ==
    (pc = "built" /\ Listing = ExampleListing) => catalogue = ExampleModel

(***************************************************************************)
(* Properties of the store.                                                *)
(***************************************************************************)
\* C9: load_file of the file written by dump_file(M) yields a sequence equal to M:
\* same number of entries, same order, same paths, same file lists, empty ones too.
C9_RoundTrip ==
    pc = "loaded" => (loaded.ok /\ loaded.val = catalogue)

C9_Witness ==
    /\ pc = "loaded" /\ Len(catalogue) = 2 /\ loaded.val = catalogue
    /\ catalogue[1][3] = <<>> /\ catalogue[2][3] # <<>> /\ catalogue[1] # catalogue[2]

(***************************************************************************)
(* Properties of the selection and of the file name.                       *)
(***************************************************************************)
GetBookEnded == pc \in {"gb_done", "raised"}

AllInRange == \A i \in 1..Len(selection) : selection[i] \in 1..Len(infos)

\* C11: at the prompt over n records, indices in 1..n select the records at those
\* positions in the order entered, and any index outside 1..n (0, negative, above
\* n) ends the call with an input error: nothing selected, nothing downloaded
C11_SelectionByIndex ==
    (GetBookEnded /\ ~auto /\ infos # <<>>) =>
        /\ AllInRange => (finals = selection /\ err = NoExc)
        /\ ~AllInRange =>
              (pc = "raised" /\ err = AcquireFailed("IndexError")
               /\ finals = <<>> /\ gbWrites = <<>>)

\* the documented name of the example: "Example Book" with type "PDF"
ExampleName ==
    <<"E", "x", "a", "m", "p", "l", "e", " ", "B", "o", "o", "k", "p", "d", "f">>

\* C12: with no destination name, every selected record (the one selected
\* automatically, and each of several chosen at the prompt) is written to the
\* file named by its own title followed by its lower-cased type, no separator
C12_OwnNameForEachRecord ==
    (GetBookEnded /\ file_name = <<>> /\ (auto \/ AllInRange)) =>
        \A k \in 1..Len(gbWrites) :
            LET final == infos[gbWrites[k].rec] IN
            /\ gbWrites[k].name = final.title \o Lower(final.type)
            /\ final = ExampleRecord => gbWrites[k].name = ExampleName

(***************************************************************************)
(* Properties of the entries a build produces.                             *)
(***************************************************************************)
\* the paths the second components of the entries name: dirpath joined to each name
NamedSubdirectories(cat) ==
    UNION {{PathJoin(cat[i][1], cat[i][2][j]) : j \in 1..Len(cat[i][2])} :
              i \in 1..Len(cat)}

LaterFileLines ==
    SelectSeq([i \in 1..(Len(Listing) - 1) |-> Listing[i + 1]], LAMBDA l : ~IsDirLine(l))

RECURSIVE AllFiles(_)
\* the file names of all entries, in catalogue order
AllFiles(cat) == IF cat = <<>> THEN <<>> ELSE cat[1][3] \o AllFiles(Tail(cat))

\* the names recorded for the file lines after the first line
LaterRecorded ==
    IF IsDirLine(Listing[1]) THEN AllFiles(catalogue) ELSE Tail(AllFiles(catalogue))

\* C16: text-listing mode, first line holding a ".": the current path becomes "./"
\* and the first line is recorded as a file of that root, with any path prefix and
\* all slashes stripped (read either as the final segment of the line, or as the
\* line with the current path removed and then its slashes removed).
C16_FirstFileLineStripped ==
    (pc = "built" /\ bInput.kind = "file" /\ Listing # <<>> /\ ~IsDirLine(Listing[1]))
        => /\ catalogue[1][1] = <<".", "/">>
           /\ catalogue[1][3] # <<>>
           /\ catalogue[1][3][1] \in
                 {LastSegment(Listing[1]),
                  NoSlashes(StripDirPrefix(Listing[1], <<".", "/">>))}

\* C17: text-listing mode: for every file line after the first line, whatever the
\* current directory is, the recorded name is the final path segment of the line.
C17_LaterFileLinesFinalSegment ==
    (pc = "built" /\ bInput.kind = "file" /\ Listing # <<>>)
        => LaterRecorded = [k \in 1..Len(LaterFileLines) |-> LastSegment(LaterFileLines[k])]

(***************************************************************************)
(* Properties of the paths replay creates.                                 *)
(***************************************************************************)
\* all segments of root before its last one: the text before its last "/"
StripPrefix(root) ==
    LET slashes == {i \in 1..Len(root) : root[i] = "/"}
    IN  IF slashes = {} THEN <<>>
        ELSE SubSeq(root, 1, (CHOOSE i \in slashes : \A j \in slashes : j <= i) - 1)

StartsWith(p, d) == Len(d) <= Len(p) /\ SubSeq(p, 1, Len(d)) = d

\* p with the leading d removed, and then one leading "/" removed
WithoutLeading(p, d) ==
    LET rest == StripDirPrefix(p, d)
    IN  IF rest # <<>> /\ rest[1] = "/" THEN Tail(rest) ELSE rest

\* C14: for every entry whose path starts with stripPrefix (the segments of the
\* first entry's path before its last one), the directory replay creates is that
\* path with the leading stripPrefix and one resulting leading slash removed, the
\* rest of the path unchanged; with a single-segment first path stripPrefix is
\* empty and the path is used as it is.
C14_LeadingPrefixRemoved ==
    (pc = "files" /\ StartsWith(catalogue[idx][1], StripPrefix(catalogue[1][1])))
        => path_ = WithoutLeading(catalogue[idx][1], StripPrefix(catalogue[1][1]))

(***************************************************************************)
(* Properties of record extraction.                                        *)
(***************************************************************************)
\* the least number of cells the positional reads of the columns need
MinColumns == 9

\* the mirror links of the row: the hrefs of the cells after the columns, the last
\* cell left out
MirrorLinks ==
    LET cells == SubSeq(row, MinColumns + 1, Len(row) - 1)
    IN  [i \in 1..Len(cells) |-> cells[i].a]

\* C15: get_info raises exactly when the row has fewer cells than the minimum
\* column count; every row with at least that many yields a record: page count 0
\* when the page field holds no digit, mirror links possibly empty, download page
\* absent when no mirror matches.
C15_RaisesOnlyOnShortRow ==
    pc = "extracted" =>
        /\ (extracted.raised # "") <=> (Len(row) < MinColumns)
        /\ extracted.raised = "" =>
              /\ (~\E i \in 1..Len(row[6].text) : IsDigit(row[6].text[i]))
                    => extracted.info.pages = 0
              /\ Len(extracted.info.links) = Len(MirrorLinks)

\* the links of ls that begin with the trusted prefix, in order
RECURSIVE BeginningWithPrefix(_)
BeginningWithPrefix(ls) ==
    IF ls = <<>> THEN <<>>
    ELSE (IF StartsWith(ls[1], TrustedPrefix) THEN <<ls[1]>> ELSE <<>>)
             \o BeginningWithPrefix(Tail(ls))

\* C18: the download page of a record is the first mirror link, in column order,
\* that begins with the trusted prefix; it is absent when no link begins with the
\* prefix, even if the prefix text occurs elsewhere inside a link.
C18_DownloadPageBeginsWithPrefix ==
    (pc = "extracted" /\ extracted.raised = "") =>
        LET good == BeginningWithPrefix(extracted.info.links)
        IN  extracted.info.download_page = IF good = <<>> THEN <<>> ELSE <<good[1]>>

(***************************************************************************)
(* Properties of the query term.                                           *)
(***************************************************************************)
\* name with its extension (what follows its last ".") stripped
WithoutExtension(name) ==
    LET dots == {i \in 1..Len(name) : name[i] = "."}
    IN  IF dots = {} THEN name
        ELSE SubSeq(name, 1, (CHOOSE i \in dots : \A j \in dots : j <= i) - 1)

\* C19: with no book name, the query term is the base name of the target file (its
\* last "/"-separated segment) with only its extension stripped: dots inside the
\* name before the extension are kept.
C19_TermKeepsInnerDots ==
    (book_name = <<>> /\ queries # <<>>) =>
        \A q \in 1..Len(queries) :
            queries[q].term = WithoutExtension(LastSegment(file_name))

(***************************************************************************)
(* Properties of the replay of a catalogue the build produced.             *)
(***************************************************************************)
\* C20: in every replay of a catalogue produced by the text-listing or the scan
\* mode, the base path the guard checks is non-empty and equal to the normalised
\* path of the first entry (the first directory the replay creates); stated for
\* catalogues whose first entry has a path at all.
C20_BasePathIsFirstDirectory ==
    (bRead /\ idx >= 1 /\ catalogue[1][1] # <<>>) =>
        /\ base_dir # <<>>
        /\ base_dir = NormalisedPath(catalogue[1][1], replace_path)

====
